---- MODULE Spec2Model ----
(***************************************************************************)
(* Model of the task-definition engine of deft (src/taskengine/taskdef.py, *)
(* src/taskengine/taskreg.py): engine invocations that lock production     *)
(* requests, walk the chains of each request, run the duplicate scan       *)
(* (_check_task_input) on each candidate task and register the accepted    *)
(* candidates (ProductionTask / TTask rows, then ProductionDataset rows).   *)
(*                                                                         *)
(* Scope of the data: request 801 has two slices and request 802 one;      *)
(* every step is the only approved step of its slice; its parent reference *)
(* is either itself (chain root) or the id of a step row that does not     *)
(* exist.  Every step reads the external dataset InputX and uses the same  *)
(* project and configuration tag, so that all candidates compete for the   *)
(* same input; candidates differ in output formats, requested events,      *)
(* reuse mode, output name length and in the error their construction      *)
(* hits.  Under Spec and SpecConc the task store starts empty and the      *)
(* legacy (TTaskRequest) table stays empty; every request has a ticket     *)
(* reference.  A save() of a request row is modelled as the update of the  *)
(* fields the handler has assigned.                                        *)
(*                                                                         *)
(* Spec runs the invocations one after another, the scheduler and the      *)
(* managers acting between them; SpecConc lets two invocations overlap.    *)
(* SpecScan runs one invocation on a store that holds an earlier task or a *)
(* legacy row.  SpecChecks follows single calls of the checks of one       *)
(* candidate and of the project_mode parsers, SpecSplit a call of          *)
(* _get_splitting_dict on a container, SpecSlice the steps of one slice    *)
(* from the queries of the request loop to the tasks of the chain, and     *)
(* SpecWalk the loop of create_task_chain over the child links of a slice  *)
(* whose parent links are arbitrary.                                       *)
(*                                                                         *)
(* register_task is modelled by its body (taskreg.py:73-158).  The call at *)
(* taskdef.py:3858-3862 passes a keyword task_common_offset that this      *)
(* signature does not declare; the model follows the body.                 *)
(***************************************************************************)
EXTENDS Integers, Sequences, FiniteSets, TLC

\* ------------------------------------------------------------------ bounds
\* files of the external input dataset, as the catalog reports them
MaxFiles == 2
\* nEventsPerInputFile of every step configuration and task
EventsPerFile == 2
\* nEventsPerJob of every step configuration and task
EventsPerJob == 2
\* status changes the external scheduler performs in one behaviour
MaxUpdates == 1
\* member datasets of an input container
MaxDatasets == 2
\* files of one member dataset of a container
MaxDatasetFiles == 5
\* tokens of a project_mode string
MaxOptionTokens == 4
\* steps of one slice
MaxChainSteps == 3

\* ------------------------------------------------------- program constants
DEFAULT_OUTPUT_NAME_MAX_LENGTH == 255
DEFAULT_MAX_NUMBER_OF_JOBS_PER_TASK == 200000
DEFAULT_ALLOWED_INPUT_EVENTS_DIFFERENCE == 10

\* ------------------------------------------------------------- value sets
\* engine invocations, numbered in the order they start
Runs == {1, 2}
\* TRequest ids (process_requests reads id > 800 only)
ReqIds == {801, 802}
StepIds == {1, 2, 3}
Formats == {"AOD", "ESD"}
InputX == "X"
\* input_events of a step that asks for the whole input
AllEvents == -1

\* the status list excluded by the duplicate scan and by get_step_tasks
TerminalFailure == {"failed", "broken", "aborted", "obsolete", "toabort"}

\* the status list excluded by the query on the legacy table
LegacyFailure == {"failed", "broken", "aborted", "obsolete"}

\* a dataset name is <<scope, name>>, the text 'scope:name', or <<"", name>>
\* when it is written without a scope
Scopes == {"", "mc16"}

\* errors a chain can hit inside create_task_chain before the checks of the
\* registrar loop: project-mode parsing, input resolution, job-count ceiling
\* of the renderer, catalog/tag service
RenderFaults == {"config", "input", "capacity", "catalog"}

VARIABLES
    request,   \* TRequest rows: [status, locked, exception]
    step,      \* StepExecution rows with their slice and step template
    task,      \* ProductionTask + TTask rows (set of records)
    dataset,   \* ProductionDataset rows (set of records)
    lastId,    \* the task-id sequence behind TTask().get_id()
    run,       \* local state of each engine invocation
    rejected,  \* history: task ids of the candidates whose construction raised
    clean,     \* history: request processed to its end, store untouched since
    updates,   \* history: scheduler status changes so far
    legacy,    \* TTaskRequest rows of the previous production system
    split,     \* local state of one _get_splitting_dict call
    call       \* one call of a check of create_task_chain: arguments, result

\* the variables no engine invocation writes
ext == <<legacy, split, call>>

vars == <<request, step, task, dataset, lastId, run, rejected, clean, updates,
          legacy, split, call>>

\* ------------------------------------------------------------ small helpers
Range(s) == {s[i] : i \in DOMAIN s}

Min(S) == CHOOSE m \in S : \A n \in S : m <= n

\* the elements of a finite set of integers in increasing order
RECURSIVE SortedSeq(_)
SortedSeq(S) == IF S = {} THEN <<>> ELSE <<Min(S)>> \o SortedSeq(S \ {Min(S)})

\* ------------------------------------------------- the persisted store: reads

\* get_request_status: the newest entry of the request's status history that
\* is neither 'approved' nor 'comment'; 'waiting' reads as 'working'.  The
\* history of every request is <<approved, comment, waiting>>, newest first.
StatusHistory == <<"approved", "comment", "waiting">>

RECURSIVE get_request_status(_)
get_request_status(statuses) ==
    IF statuses = <<>> THEN "none"
    ELSE IF Head(statuses) \notin {"approved", "comment"}
         THEN (IF Head(statuses) = "waiting" THEN "working" ELSE Head(statuses))
         ELSE get_request_status(Tail(statuses))

\* the steps of a request in slice order (one approved step per slice)
StepsOf(r) == SortedSeq({s \in StepIds : step[s].req = r})

TasksOfStep(s) == {t \in task : t.step = s}

\* get_step_output(step, exclude_failed): the dataset names of the newest
\* task of the step (all tasks, or those not in a terminal-failure status)
get_step_output(s, exclude_failed) ==
    LET ts == IF exclude_failed
              THEN {t \in TasksOfStep(s) : t.status \notin TerminalFailure}
              ELSE TasksOfStep(s)
    IN IF ts = {} THEN {}
       ELSE LET newest == CHOOSE t \in ts : \A u \in ts : u.id <= t.id
            IN {d.name : d \in {e \in dataset : e.task_id = newest.id}}

\* the parent lookup of the chain loop: StepExecution.objects.get(id=
\* step.step_parent_id) finds a row unless the reference dangles
ParentExists(s) == step[s].parent \in StepIds

\* a selection that forgets the registered output of a step
first_steps_all(ss, restart) == ss

\* first_steps of a request: per slice the first approved step that has no
\* registered output, or the first step of every slice under restart
RECURSIVE first_steps(_, _)
first_steps(ss, restart) ==
    IF ss = <<>> THEN <<>>
    ELSE (IF get_step_output(Head(ss), FALSE) = {} \/ restart
          THEN <<Head(ss)>> ELSE <<>>) \o first_steps(Tail(ss), restart)

\* rucio_client.get_number_files of the primary input
get_number_files(x) == MaxFiles

\* ------------------------------------------- the duplicate scan of one candidate

\* a candidate is the task create_task_chain has rendered for a step:
\* [step, formats, events, nFiles, reuse, name_len, task_id]

\* a scan that takes only tasks of exactly the requested formats
MatchingSameFormats(c, tasks) ==
    {t \in tasks : /\ t.status \notin {"failed", "broken", "aborted", "obsolete", "toabort"}
                   /\ t.inputdataset = "X"
                   /\ t.dsn[2] = c.dsn[2]
                   /\ t.output_formats = c.formats}

\* the rows the current-table query returns (taskdef.py:1189-1202: status,
\* project, tag, input name equal to or containing the step's input name
\* without its scope) that pass the output-format intersection (1207-1211)
\* and the equality of the dataset names without their scopes (1246)
Matching(c, tasks) ==
    {t \in tasks : /\ t.status \notin TerminalFailure
                   /\ t.inputdataset = InputX
                   /\ t.dsn[2] = c.dsn[2]
                   /\ t.output_formats \cap c.formats # {}}

\* the rows the legacy-table query returns (1178-1182): status, project, tag,
\* the input name and the format list of the step as they are written
LegacyMatching(c, rows) ==
    {r \in rows : /\ r.status \notin LegacyFailure
                  /\ r.inputdataset = c.dsn
                  /\ r.formats = c.formats}

\* what a legacy row adds to number_of_input_files_used (1185-1187), for a
\* row with total_req_jobs > 0: the Decimal quotient, truncated
LegacyFiles(r) == r.total_events \div r.events_per_file

\* int(float(nEventsPerJob) / float(nEventsPerInputFile) * counter)
FilesFromJedi(counter) == (EventsPerJob * counter) \div EventsPerFile

\* a scan that counts nothing for a task without a recorded file count
ConsumedZero(c, t) ==
    IF t.nFiles # <<>> THEN [kind |-> "used", n |-> t.nFiles[1]]
    ELSE [kind |-> "used", n |-> 0]

\* what one matching task adds to number_of_input_files_used, or the error
\* its branch raises (1249-1310).  kind "duplicate" is TaskDuplicateDetected,
\* kind "processed" the Exception 'Task duplication candidate is found';
\* when the JediDataset row is missing and the two dataset names differ as
\* written (1262-1267, 1288-1293) nothing is added and nothing is raised
Consumed(c, t) ==
    IF t.nFiles # <<>> THEN [kind |-> "used", n |-> t.nFiles[1]]
    ELSE IF t.status \in {"done", "finished"}
         THEN IF t.evcfg
              THEN IF t.jedi # <<>>
                   THEN [kind |-> "used", n |-> FilesFromJedi(t.jedi[1])]
                   ELSE IF c.dsn = t.dsn
                        THEN [kind |-> "processed", n |-> 0]
                        ELSE [kind |-> "used", n |-> 0]
              ELSE [kind |-> "duplicate", n |-> 0]
         ELSE [kind |-> "duplicate", n |-> 0]

RECURSIVE SumUsed(_, _)
SumUsed(c, ts) ==
    IF ts = {} THEN 0
    ELSE LET t == CHOOSE u \in ts : TRUE
         IN Consumed(c, t).n + SumUsed(c, ts \ {t})

RECURSIVE SumLegacy(_)
SumLegacy(rows) ==
    IF rows = {} THEN 0
    ELSE LET r == CHOOSE u \in rows : TRUE
         IN LegacyFiles(r) + SumLegacy(rows \ {r})

\* the total after the loop over the legacy rows (1183-1187) and the loop
\* over the current rows (1204-1310)
number_of_input_files_used(c, tasks) ==
    SumLegacy(LegacyMatching(c, legacy)) + SumUsed(c, Matching(c, tasks))

\* taskdef.py:1332-1335
number_input_files_requested(c, tasks) ==
    IF c.events > 0 THEN c.events \div EventsPerFile
    ELSE get_number_files(InputX) - number_of_input_files_used(c, tasks)

\* a capacity check that lets one file too many through
NoMoreInputOffByOne(requested, used, total) ==
    requested + used > total + 1 \/ requested < 0

\* taskdef.py:1344-1345
NoMoreInput(requested, used, total) == requested + used > total \/ requested < 0

\* the outcome of the scan once every matching task has a determinable
\* consumption: reuse mode returns before the capacity check (1337-1342)
AfterScan(c, tasks) ==
    IF c.reuse THEN "accepted"
    ELSE IF NoMoreInput(number_input_files_requested(c, tasks),
                        number_of_input_files_used(c, tasks),
                        get_number_files(InputX))
         THEN "nomore" ELSE "accepted"

\* _check_task_input: the loop raises at the first matching task whose
\* consumption is not determinable; the query has no ordering, so any such
\* task can be the first
check_task_input(c, tasks) ==
    LET raising == {t \in Matching(c, tasks) : Consumed(c, t).kind # "used"}
    IN IF \E r \in LegacyMatching(c, legacy) : r.total_req_jobs = 0
       THEN {"arithmetic"}
       ELSE IF raising # {} THEN {Consumed(c, t).kind : t \in raising}
       ELSE {AfterScan(c, tasks)}

\* primary_input['offset'] of an accepted candidate (1338, 1353)
primary_input_offset(c, tasks) ==
    IF c.reuse THEN 0 ELSE number_of_input_files_used(c, tasks)

\* --------------------------------------------------------------- initial data

FormatSets == SUBSET Formats \ {{}}
EventChoices == {AllEvents, EventsPerFile, MaxFiles * EventsPerFile}

\* a step_parent_id that names no StepExecution row
MissingStep == Cardinality(StepIds) + 1

Plain == [formats |-> {"AOD"}, input_events |-> EventsPerFile, reuse |-> FALSE,
          fault |-> "none", name_len |-> DEFAULT_OUTPUT_NAME_MAX_LENGTH,
          dangling |-> FALSE, scope |-> ""]

Profiles ==
    {[Plain EXCEPT !.formats = f, !.input_events = e] :
         f \in FormatSets, e \in EventChoices}
    \cup {[Plain EXCEPT !.reuse = TRUE, !.input_events = e] : e \in EventChoices \ {AllEvents}}
    \cup {[Plain EXCEPT !.name_len = DEFAULT_OUTPUT_NAME_MAX_LENGTH + 1]}
    \cup {[Plain EXCEPT !.fault = k] : k \in RenderFaults}
    \cup {[Plain EXCEPT !.dangling = TRUE]}

\* the profiles of the step of the first slice
FirstProfiles == {p \in Profiles : p.formats = {"AOD"} /\ ~p.reuse}

\* the profiles of the runs that overlap in time
FewProfiles ==
    {Plain, [Plain EXCEPT !.fault = "config"], [Plain EXCEPT !.dangling = TRUE]}

RequestOf(s) == IF s <= 2 THEN 801 ELSE 802

StepRow(s, p) ==
    [req |-> RequestOf(s),
     parent |-> IF p.dangling THEN MissingStep ELSE s,
     formats |-> p.formats, input_events |-> p.input_events,
     reuse |-> p.reuse, fault |-> p.fault, name_len |-> p.name_len,
     scope |-> p.scope]

\* no call of the function is under way
NotCalled == [fn |-> "none"]

IdleRun == [pc |-> "idle", reqs |-> <<>>, restart |-> FALSE, i |-> 0,
            first |-> <<>>, j |-> 0, cand |-> <<>>, exception |-> FALSE,
            raised |-> "", log |-> {}, tried |-> {}, again |-> FALSE, locked |-> {}]

\* an invocation that has returned, or raised the error named in raised
Ended == [IdleRun EXCEPT !.pc = "done"]

InitWith(P) ==
    /\ \E p1 \in P \cap FirstProfiles, p2 \in P :
           step = [s \in StepIds |->
                      StepRow(s, IF s = 1 THEN p1 ELSE IF s = 2 THEN p2 ELSE Plain)]
    /\ request = [r \in ReqIds |->
                     [status |-> "approved", locked |-> FALSE, exception |-> FALSE]]
    /\ task = {}
    /\ dataset = {}
    /\ lastId = 0
    /\ run = [x \in Runs |-> IdleRun]
    /\ rejected = {}
    /\ clean = [r \in ReqIds |-> FALSE]
    /\ updates = 0
    /\ legacy = {}
    /\ split = NotCalled
    /\ call = NotCalled

Init == InitWith(Profiles)

InitConc == InitWith(FewProfiles)

\* ------------------------------------------------------ create_task_chain parts

\* TTask().get_id() calls made before the chain raises: the prototype id
\* (taskdef.py:2143) and the task id (3800/3809)
IdsDrawn(fault) ==
    IF fault \in {"config", "input"} THEN 0
    ELSE IF fault = "capacity" THEN 1 ELSE 2

\* the task rendered for step s under task id tid
Candidate(s, tid) ==
    [step |-> s, formats |-> step[s].formats, events |-> step[s].input_events,
     nFiles |-> IF step[s].input_events > 0
                THEN <<step[s].input_events \div EventsPerFile>> ELSE <<>>,
     reuse |-> step[s].reuse, name_len |-> step[s].name_len, task_id |-> tid,
     dsn |-> <<step[s].scope, InputX>>]

\* a length check that is off by one
NameTooLongOffByOne(n) == n > DEFAULT_OUTPUT_NAME_MAX_LENGTH + 1

\* taskdef.py:3823-3829
NameTooLong(n) == n > DEFAULT_OUTPUT_NAME_MAX_LENGTH

\* what the construction of the candidate ends in: an error kind, or
\* "accepted" when every check of the registrar loop has passed
Outcomes(c, tasks) ==
    IF step[c.step].fault # "none" THEN {step[c.step].fault}
    ELSE IF NameTooLong(c.name_len) THEN {"name"}
    ELSE check_task_input(c, tasks)

\* a registrar loop that goes on after 'no more input files'
ProceedsOnNoMore(outcome) == outcome \in {"accepted", "nomore"}

\* a raise leaves the registrar loop: register_task and register_task_output
\* (3858-3869) run only after every check has returned
Proceeds(outcome) == outcome = "accepted"

\* handlers that take the typed errors only
CaughtTypedOnly(kind) == kind \in {"duplicate", "nomore"}

\* the handlers around a chain (4776-4789): the bare except takes every error
Caught(kind) == TRUE

\* the names register_task_output derives: one per output type, 'log' included
OutputNames(c) == {<<f, c.task_id>> : f \in c.formats \cup {"log"}}

\* a registration that saves every row: name is the primary key, a save
\* under a name that is present replaces the row
save_datasets_always(store, rows) ==
    {d \in store : \A r \in rows : r.name # d.name} \cup rows

\* the loop of register_task_output (taskreg.py:22-37) on the rows of the
\* names it derives: a name that is present is skipped, the others are saved
save_datasets(store, rows) ==
    store \cup {r \in rows : \A d \in store : d.name # r.name}

\* the ProductionTask / TTask row register_task saves
TaskRow(c) ==
    [id |-> c.task_id, step |-> c.step, request |-> step[c.step].req,
     status |-> "waiting", inputdataset |-> InputX, dsn |-> c.dsn,
     output_formats |-> c.formats, nFiles |-> c.nFiles, evcfg |-> TRUE,
     jedi |-> <<>>, parent_id |-> c.task_id, chain_id |-> c.task_id,
     offset |-> c.offset]

\* ------------------------------------------------------------------- actions

Current(x) == run[x].reqs[run[x].i]

\* invocations are numbered in the order they start
InOrder(x) == \A y \in Runs : y < x => run[y].pc # "idle"

\* the loop over first_steps moves on, or the request reaches its end
NextChain(x) == IF run[x].j < Len(run[x].first) THEN "chain" ELSE "endreq"

\* process_requests: the unlocked approved requests, those past the grace
\* period kept, the first of them handed on
process_requests(x) ==
    /\ run[x].pc = "idle" /\ InOrder(x)
    /\ \E restart \in BOOLEAN :
       LET eligible == {r \in ReqIds : ~request[r].locked /\ request[r].status = "approved"}
       IN \E reqs \in {<<r>> : r \in eligible} \cup {<<>>} :
            run' = [run EXCEPT ![x] =
                       IF reqs = <<>> THEN Ended
                       ELSE [run[x] EXCEPT !.pc = "lock", !.reqs = reqs,
                                           !.restart = restart]]
    /\ UNCHANGED <<request, step, task, dataset, lastId, rejected, clean, updates, ext>>

\* force_process_requests: the requests of the given ids, whatever their state
force_process_requests(x) ==
    /\ run[x].pc = "idle" /\ InOrder(x)
    /\ \E restart \in BOOLEAN :
       \E reqs \in {<<r>> : r \in ReqIds} \cup {<<801, 802>>, <<802, 801>>} :
            run' = [run EXCEPT ![x].pc = "lock", ![x].reqs = reqs,
                               ![x].restart = restart]
    /\ UNCHANGED <<request, step, task, dataset, lastId, rejected, clean, updates, ext>>

\* _define_tasks_for_requests, 4624-4627: every request is locked up front
define_tasks_lock(x) ==
    /\ run[x].pc = "lock"
    /\ request' = [r \in ReqIds |->
                      IF r \in Range(run[x].reqs)
                      THEN [request[r] EXCEPT !.locked = TRUE] ELSE request[r]]
    /\ run' = [run EXCEPT ![x].pc = "request", ![x].i = 1,
                          ![x].locked = Range(run[x].reqs)]
    /\ UNCHANGED <<step, task, dataset, lastId, rejected, clean, updates, ext>>

\* 4631-4652: the first steps of the current request
define_tasks_first_steps(x) ==
    /\ run[x].pc = "request"
    /\ LET fs == first_steps(StepsOf(Current(x)), run[x].restart)
       IN run' = [run EXCEPT ![x].first = fs, ![x].j = 1,
                             ![x].exception = FALSE,
                             ![x].log = {}, ![x].tried = {},
                             ![x].again = clean[Current(x)] /\
                                          request[Current(x)].status = "approved",
                             ![x].pc = IF fs = <<>> THEN "endreq" ELSE "chain"]
    /\ UNCHANGED <<request, step, task, dataset, lastId, rejected, clean, updates, ext>>

\* an exception leaves the loop over the requests: the finally clause
\* (4794-4798) unlocks the current request and the invocation ends
Escape(x, kind) ==
    /\ request' = [request EXCEPT ![Current(x)].locked = FALSE]
    /\ run' = [run EXCEPT ![x] = [Ended EXCEPT !.raised = kind]]

\* 4654: the parent lookup, outside the chain's try block, finds no row
chain_parent_missing(x) ==
    /\ run[x].pc = "chain"
    /\ ~ParentExists(run[x].first[run[x].j])
    /\ Escape(x, "parent")
    /\ UNCHANGED <<step, task, dataset, lastId, rejected, clean, updates, ext>>

\* create_task_chain up to the end of the checks of the registrar loop
\* (1574-3844), under the handlers of the chain loop (4657-4789)
create_task_chain(x) ==
    /\ run[x].pc = "chain"
    /\ ParentExists(run[x].first[run[x].j])
    /\ LET s == run[x].first[run[x].j]
           drawn == IdsDrawn(step[s].fault)
           c == Candidate(s, lastId + drawn)
       IN /\ lastId' = lastId + drawn
          /\ \E o \in Outcomes(c, task) :
               /\ rejected' = IF o # "accepted" /\ drawn = 2
                              THEN rejected \cup {c.task_id} ELSE rejected
               /\ IF Proceeds(o)
                  THEN /\ run' = [run EXCEPT
                             ![x].pc = "regtask",
                             ![x].tried = @ \cup {s},
                             ![x].cand =
                                 [step |-> c.step, formats |-> c.formats,
                                  events |-> c.events, nFiles |-> c.nFiles,
                                  reuse |-> c.reuse, name_len |-> c.name_len,
                                  task_id |-> c.task_id, dsn |-> c.dsn,
                                  outcome |-> o,
                                  offset |-> primary_input_offset(c, task),
                                  used |-> number_of_input_files_used(c, task),
                                  requested |->
                                      number_input_files_requested(c, task),
                                  total |-> get_number_files(InputX)]]
                       /\ UNCHANGED request
                  ELSE IF Caught(o)
                       THEN /\ run' = [run EXCEPT ![x].pc = NextChain(x),
                                                  ![x].j = @ + 1,
                                                  ![x].tried = @ \cup {s},
                                                  ![x].exception = TRUE,
                                                  ![x].log = @ \cup {<<s, o>>}]
                            /\ UNCHANGED request
                       ELSE Escape(x, o)
    /\ UNCHANGED <<step, task, dataset, clean, updates, ext>>

\* the registrations of other requests' runs end the quiet period of a request
Touched(x) == [r \in ReqIds |-> IF r = Current(x) THEN clean[r] ELSE FALSE]

\* taskreg.py:73-158
register_task(x) ==
    /\ run[x].pc = "regtask"
    /\ task' = task \cup {TaskRow(run[x].cand)}
    /\ run' = [run EXCEPT ![x].pc = "regout"]
    /\ clean' = Touched(x)
    /\ UNCHANGED <<request, step, dataset, lastId, rejected, updates, ext>>

\* taskreg.py:21-39; then the chain loop moves on
register_task_output(x) ==
    /\ run[x].pc = "regout"
    /\ dataset' = save_datasets(
                       dataset,
                       {[name |-> n, task_id |-> run[x].cand.task_id,
                         len |-> run[x].cand.name_len] :
                            n \in OutputNames(run[x].cand)})
    /\ run' = [run EXCEPT ![x].pc = NextChain(x), ![x].j = @ + 1,
                          ![x].cand = <<>>]
    /\ clean' = Touched(x)
    /\ UNCHANGED <<request, step, task, lastId, rejected, updates, ext>>

\* 4790-4798: status and exception flag saved, request unlocked, next request
define_tasks_finish_request(x) ==
    /\ run[x].pc = "endreq"
    /\ request' = [request EXCEPT ![Current(x)] =
                      [status |-> get_request_status(StatusHistory),
                       locked |-> FALSE, exception |-> run[x].exception]]
    /\ clean' = [clean EXCEPT ![Current(x)] = TRUE]
    /\ run' = [run EXCEPT ![x] = IF run[x].i < Len(run[x].reqs)
                                  THEN [run[x] EXCEPT !.i = @ + 1, !.pc = "request"]
                                  ELSE Ended]
    /\ UNCHANGED <<step, task, dataset, lastId, rejected, updates, ext>>

\* ---------------------------------------------------------- the environment

\* the scheduler moves a task to another status; a task that ended gets its
\* JediDataset row or not
SchedulerStatuses == {"running", "done", "finished", "failed"}

SchedulerUpdate ==
    /\ updates < MaxUpdates
    /\ \E t \in task, st \in SchedulerStatuses \ {"waiting"} :
         /\ t.status # st
         /\ \E jd \in IF st \in {"done", "finished"}
                      THEN {<<>>} \cup {<<n>> : n \in 0..MaxFiles} ELSE {<<>>} :
              task' = (task \ {t}) \cup {[t EXCEPT !.status = st, !.jedi = jd]}
    /\ updates' = updates + 1
    /\ clean' = [r \in ReqIds |-> FALSE]
    /\ UNCHANGED <<request, step, dataset, lastId, run, rejected, ext>>

\* a manager approves a processed request again
ApproveRequest ==
    /\ \E r \in ReqIds :
         /\ request[r].status # "approved"
         /\ request' = [request EXCEPT ![r].status = "approved"]
    /\ UNCHANGED <<step, task, dataset, lastId, run, rejected, clean, updates, ext>>

\* ----------------------------------------------------------- specifications

\* no other invocation is under way
Quiet(x) == \A y \in Runs \ {x} : run[y].pc \in {"idle", "done"}

\* the store is followed up to the last invocation: the environment acts
\* after one invocation has ended and before the next one starts
Between ==
    /\ \A x \in Runs : run[x].pc \in {"idle", "done"}
    /\ \E x \in Runs : run[x].pc = "idle"

\* invocations one after another, the scheduler and the managers in between
Next ==
    \/ \E x \in Runs : Quiet(x) /\ process_requests(x)
    \/ \E x \in Runs : Quiet(x) /\ force_process_requests(x)
    \/ \E x \in Runs : define_tasks_lock(x)
    \/ \E x \in Runs : define_tasks_first_steps(x)
    \/ \E x \in Runs : chain_parent_missing(x)
    \/ \E x \in Runs : create_task_chain(x)
    \/ \E x \in Runs : register_task(x)
    \/ \E x \in Runs : register_task_output(x)
    \/ \E x \in Runs : define_tasks_finish_request(x)
    \/ Between /\ SchedulerUpdate
    \/ Between /\ ApproveRequest

Spec == Init /\ [][Next]_vars

\* invocations that overlap in time
NextConc ==
    \/ \E x \in Runs : process_requests(x)
    \/ \E x \in Runs : force_process_requests(x)
    \/ \E x \in Runs : define_tasks_lock(x)
    \/ \E x \in Runs : define_tasks_first_steps(x)
    \/ \E x \in Runs : chain_parent_missing(x)
    \/ \E x \in Runs : create_task_chain(x)
    \/ \E x \in Runs : register_task(x)
    \/ \E x \in Runs : register_task_output(x)
    \/ \E x \in Runs : define_tasks_finish_request(x)

SpecConc == InitConc /\ [][NextConc]_vars

\* --------------------------------------- one invocation on a store with history

\* the step of the second slice of request 801
ScanProfiles ==
    {[Plain EXCEPT !.formats = f, !.input_events = e, !.scope = sc] :
         f \in FormatSets, e \in {AllEvents, EventsPerFile}, sc \in Scopes}

\* a task an earlier request has left on the same input under the same
\* project and tag
PriorTasks ==
    {[id |-> 1, step |-> 0, request |-> 800, status |-> st,
      inputdataset |-> InputX, dsn |-> <<sc, InputX>>, output_formats |-> f,
      nFiles |-> nf, evcfg |-> ev, jedi |-> jd, parent_id |-> 1, chain_id |-> 1,
      offset |-> 0] :
         st \in {"waiting", "done", "finished", "toabort"}, sc \in Scopes,
         f \in FormatSets, nf \in {<<>>, <<1>>}, ev \in BOOLEAN,
         jd \in {<<>>, <<1>>}}

\* a row of the legacy table on the same input under the same project and tag
LegacyRows ==
    {[reqid |-> 1, status |-> st, inputdataset |-> <<sc, InputX>>, formats |-> f,
      total_events |-> EventsPerFile, events_per_file |-> EventsPerFile,
      total_req_jobs |-> j] :
         st \in {"done", "toabort", "failed"}, sc \in Scopes, f \in FormatSets,
         j \in {0, 1}}

InitScan ==
    /\ \E p \in ScanProfiles :
           step = [s \in StepIds |-> StepRow(s, IF s = 2 THEN p ELSE Plain)]
    /\ request = [r \in ReqIds |->
                     [status |-> "approved", locked |-> FALSE, exception |-> FALSE]]
    /\ task \in {{}} \cup
                {{t} : t \in {u \in PriorTasks :
                                 u.jedi = <<>> \/ u.status \in {"done", "finished"}}}
    /\ legacy \in {{}} \cup {{r} : r \in LegacyRows}
    /\ dataset = {}
    /\ lastId = 1
    /\ run = [x \in Runs |-> IdleRun]
    /\ rejected = {}
    /\ clean = [r \in ReqIds |-> FALSE]
    /\ updates = 0
    /\ split = NotCalled
    /\ call = NotCalled

\* the first invocation, on request 801
NextScan ==
    \/ force_process_requests(1) /\ run'[1].reqs = <<801>> /\ ~run'[1].restart
    \/ define_tasks_lock(1)
    \/ define_tasks_first_steps(1)
    \/ create_task_chain(1)
    \/ register_task(1)
    \/ register_task_output(1)
    \/ define_tasks_finish_request(1)

SpecScan == InitScan /\ [][NextScan]_vars

\* ---------------------------------------------- the checks of one candidate

\* the engine's variables while a single check is followed
EngineAtRest ==
    /\ step = [s \in StepIds |-> StepRow(s, Plain)]
    /\ request = [r \in ReqIds |->
                     [status |-> "approved", locked |-> FALSE, exception |-> FALSE]]
    /\ task = {}
    /\ dataset = {}
    /\ lastId = 0
    /\ run = [x \in Runs |-> IdleRun]
    /\ rejected = {}
    /\ clean = [r \in ReqIds |-> FALSE]
    /\ updates = 0
    /\ legacy = {}

engine == <<request, step, task, dataset, lastId, run, rejected, clean, updates,
            legacy>>

\* a check is called with arguments arg and has not returned
Called(f, a) == [fn |-> f, arg |-> a, out |-> <<>>]

\* the check f returns or raises: out holds the result
Returns(f, result) ==
    /\ call.fn = f /\ call.out = <<>>
    /\ call' = [call EXCEPT !.out = <<result>>]
    /\ UNCHANGED <<engine, split>>

\* the versions of a dataset name are its tags in order ('e1_r2' is <<e1, r2>>);
\* str(version.split('_tid')[0]).endswith(tag_name)
VersionEndsWith(version, tag) ==
    version # <<>> /\ version[Len(version)] = tag

\* a ratio test that lets files-per-job decide before the event counts
is_merge_1_to_1_files_first(a) ==
    IF a.nFilesPerJob > 1 THEN FALSE
    ELSE IF a.nEventsPerJob > 0 /\ a.nEventsPerInputFile > 0
         THEN a.nEventsPerJob = a.nEventsPerInputFile
         ELSE ~(a.nGBPerJob > 0)

\* taskdef.py:1076-1087; a key the task does not carry reads as 0
is_merge_1_to_1(a) ==
    IF a.nEventsPerJob > 0 /\ a.nEventsPerInputFile > 0
    THEN a.nEventsPerJob = a.nEventsPerInputFile
    ELSE IF a.nFilesPerJob > 1 THEN FALSE
    ELSE IF a.nGBPerJob > 0 THEN FALSE
    ELSE TRUE

\* the head of _check_task_input (1066-1089), called from the registrar loop
\* unless skip_check_input is set (3840): "skipped" without the call,
\* "noinput" for the return at 1069, "InvalidMerge" for the raise at 1089,
\* "passed" when the function goes on to the checks that follow
check_merge(a) ==
    IF a.skip_check_input THEN "skipped"
    ELSE IF ~a.has_input THEN "noinput"
    ELSE IF /\ a.prod_step = "merge"
            /\ VersionEndsWith(a.version, a.ctag)
            /\ is_merge_1_to_1(a)
         THEN "InvalidMerge"
         ELSE "passed"

\* the candidates the merge check is followed on: the step's tag is p2
MergeArgs ==
    [skip_check_input : BOOLEAN, has_input : BOOLEAN,
     prod_step : {"merge", "recon"}, ctag : {"p2"},
     version : {<<"r1">>, <<"r1", "p2">>},
     nEventsPerJob : 0..EventsPerJob, nEventsPerInputFile : 0..EventsPerFile,
     nFilesPerJob : 0..MaxFiles, nGBPerJob : {0, 1},
     number_of_events : {AllEvents, EventsPerFile}]

merge_ratio_check ==
    /\ Returns("merge", check_merge(call.arg))

\* a ceiling that is never reached
ExceedsCeilingNever(number_of_jobs) == FALSE

\* 1150, 3649
ExceedsCeiling(number_of_jobs) ==
    number_of_jobs > DEFAULT_MAX_NUMBER_OF_JOBS_PER_TASK

\* create_task_chain, 3647-3648: the job count of a candidate with an
\* explicit event count, <<>> when none is computed
number_of_jobs_chain(a) ==
    IF a.number_of_events > 0 /\ a.has_nEventsPerJob
    THEN <<a.number_of_events \div a.nEventsPerJob>>
    ELSE <<>>

\* _check_task_input, 1142-1148; nEventsPerInputFile is in the configuration
\* by then (1115-1120)
number_of_jobs_input(a) ==
    IF a.number_of_events > 0 /\ a.has_nEventsPerJob
    THEN a.number_of_events \div a.nEventsPerJob
    ELSE IF a.has_nEventsPerJob /\ a.total_files > 0
         THEN (a.total_files * a.nEventsPerInputFile) \div a.nEventsPerJob
         ELSE 0

\* what becomes of a rendered candidate between the ceiling of
\* create_task_chain (3647-3650) and register_task (3858): the division by a
\* zero nEventsPerJob, the ceiling, the input check unless it is skipped
\* (3840) or returns for want of a primary input (1066-1069), its ceiling
\* (1142-1151) and the outcome scan of the duplicate scan behind it
candidate_outcome(a) ==
    LET zero == a.has_nEventsPerJob /\ a.nEventsPerJob = 0
    IN IF zero /\ a.number_of_events > 0 THEN "arithmetic"
       ELSE IF number_of_jobs_chain(a) # <<>>
               /\ ExceedsCeiling(number_of_jobs_chain(a)[1]) THEN "MaxJobs"
       ELSE IF a.skip_check_input \/ ~a.has_input THEN "registered"
       ELSE IF zero /\ a.total_files > 0 THEN "arithmetic"
       ELSE IF ExceedsCeiling(number_of_jobs_input(a)) THEN "MaxJobs"
       ELSE IF a.scan = "accepted" THEN "registered"
       ELSE a.scan

\* the candidates the job ceiling is followed on
JobArgs ==
    [skip_check_input : BOOLEAN, has_input : BOOLEAN,
     number_of_events : {AllEvents, EventsPerJob,
                         DEFAULT_MAX_NUMBER_OF_JOBS_PER_TASK * EventsPerJob,
                         (DEFAULT_MAX_NUMBER_OF_JOBS_PER_TASK + 1) * EventsPerJob},
     has_nEventsPerJob : BOOLEAN, nEventsPerJob : {0, EventsPerJob},
     nEventsPerInputFile : {0, EventsPerFile},
     total_files : {0, MaxFiles, DEFAULT_MAX_NUMBER_OF_JOBS_PER_TASK,
                    DEFAULT_MAX_NUMBER_OF_JOBS_PER_TASK + 1},
     scan : {"accepted", "duplicate", "nomore"}]

job_ceiling_check ==
    /\ Returns("jobs", candidate_outcome(call.arg))

\* a check that asks only whether nEventsPerJob divides nEventsPerInputFile
check_task_events_consistency_one_way(n_events_input_file, n_events_job) ==
    IF n_events_job = 0 THEN "ZeroDivisionError"
    ELSE IF n_events_input_file % n_events_job = 0 THEN "passed"
    ELSE "Inconsistent"

\* _check_task_events_consistency (1563-1572): the left operand of 'or' is
\* evaluated first and divides by nEventsPerJob
check_task_events_consistency(n_events_input_file, n_events_job) ==
    IF n_events_job = 0 THEN "ZeroDivisionError"
    ELSE IF n_events_input_file % n_events_job = 0 THEN "passed"
    ELSE IF n_events_job % n_events_input_file = 0 THEN "passed"
    ELSE "Inconsistent"

\* 2280-2282: the check is applied when the configuration has both keys,
\* the step is not exempted and project_mode does not set nEventsPerInputFile
consistency_applied(a) ==
    /\ a.has_nEventsPerInputFile /\ a.has_nEventsPerJob
    /\ ~a.skip_check_input_ne
    /\ ~a.project_mode_nEventsPerInputFile

consistency_outcome(a) ==
    IF consistency_applied(a)
    THEN check_task_events_consistency(a.nEventsPerInputFile, a.nEventsPerJob)
    ELSE "notapplied"

EventCounts == 0..(2 * EventsPerJob) \cup {250, 375, 500}

ConsistencyArgs ==
    [has_nEventsPerInputFile : BOOLEAN, has_nEventsPerJob : BOOLEAN,
     skip_check_input_ne : BOOLEAN, project_mode_nEventsPerInputFile : BOOLEAN,
     nEventsPerInputFile : EventCounts, nEventsPerJob : EventCounts]

events_consistency_check ==
    /\ Returns("consistency", consistency_outcome(call.arg))

\* ------------------------------------------------- project_mode option strings

\* a project_mode string is a sequence of tokens: '=', ';', ' ' are the
\* characters, a word stands for the run of its characters
ProjectModeTokens == {"skipCMTConfigCheck", "fooBar", "yes", "=", ";", " "}

ProjectModeStrings ==
    UNION {[1..n -> ProjectModeTokens] : n \in 0..MaxOptionTokens}

\* str.lower()
Lower(s) ==
    [i \in 1..Len(s) |->
        CASE s[i] = "skipCMTConfigCheck" -> "skipcmtconfigcheck"
          [] s[i] = "fooBar" -> "foobar"
          [] OTHER -> s[i]]

\* str.split(sep)
RECURSIVE str_split(_, _)
str_split(s, sep) ==
    IF \A i \in 1..Len(s) : s[i] # sep THEN <<s>>
    ELSE LET i == CHOOSE i \in 1..Len(s) :
                      s[i] = sep /\ \A j \in 1..(i - 1) : s[j] # sep
         IN <<SubSeq(s, 1, i - 1)>> \o str_split(SubSeq(s, i + 1, Len(s)), sep)

\* dict.update({key: value}) on a dict kept as the sequence of its items: a
\* key that is present keeps its place
dict_update(d, key, value) ==
    IF \E i \in 1..Len(d) : d[i][1] = key
    THEN [i \in 1..Len(d) |-> IF d[i][1] = key THEN <<key, value>> ELSE d[i]]
    ELSE Append(d, <<key, value>>)

dict_keys(d) == {d[i][1] : i \in 1..Len(d)}

dict_get(d, key) ==
    IF key \in dict_keys(d)
    THEN d[CHOOSE i \in 1..Len(d) : d[i][1] = key][2]
    ELSE <<>>

\* the loop of _parse_project_mode over the options that are left; whole is
\* FALSE for option.split("=")[1] (taskdef.py:182) and TRUE for
\* option[option.find('=')+1:] (projectmode/__init__.py:108)
RECURSIVE parse_options(_, _, _)
parse_options(options, d, whole) ==
    IF options = <<>> THEN [raised |-> "none", dict |-> d]
    ELSE LET option == Head(options)
             pieces == str_split(option, "=")
         IN IF option = <<>> THEN parse_options(Tail(options), d, whole)
            ELSE IF Len(pieces) = 1
                 THEN [raised |-> "Exception", names |-> option]
            ELSE parse_options(
                     Tail(options),
                     dict_update(d, Lower(pieces[1]),
                                 IF whole
                                 THEN SubSeq(option, Len(pieces[1]) + 2,
                                             Len(option))
                                 ELSE pieces[2]),
                     whole)

\* TaskDefinition._parse_project_mode (taskdef.py:174-183)
parse_project_mode(project_mode_string) ==
    parse_options(
        str_split(SelectSeq(project_mode_string, LAMBDA t : t # " "), ";"),
        <<>>, FALSE)

\* TaskDefinition._get_project_mode(step), the call without cache and
\* without use_nightly_release: the parsed options, then the default
\* cmtconfig (247-248); no key is compared with a list of options
get_project_mode(project_mode_string) ==
    LET parsed == IF project_mode_string = <<>>
                  THEN [raised |-> "none", dict |-> <<>>]
                  ELSE parse_project_mode(project_mode_string)
    IN IF parsed.raised # "none" THEN parsed
       ELSE IF dict_get(parsed.dict, <<"cmtconfig">>) = <<>>
            THEN [parsed EXCEPT !.dict =
                     dict_update(@, <<"cmtconfig">>, <<"i686-slc5-gcc43-opt">>)]
            ELSE parsed

\* the options projectmode.json declares, with their types
DeclaredOptions ==
    {[name |-> "skipCMTConfigCheck", type |-> "bool"],
     [name |-> "cmtconfig", type |-> "str"]}

\* option_names (projectmode/__init__.py:42)
option_names == {Lower(<<o.name>>) : o \in DeclaredOptions}

\* the loop of ProjectMode.__init__ over the keys of the parsed dict (44-57)
RECURSIVE ProjectMode_options(_, _)
ProjectMode_options(items, d) ==
    IF items = <<>> THEN [raised |-> "none", dict |-> d]
    ELSE LET key == Head(items)[1]
             option_value == Head(items)[2]
             o == CHOOSE o \in DeclaredOptions : Lower(<<o.name>>) = key
         IN IF key \notin option_names
            THEN [raised |-> "UnknownProjectModeOption", names |-> key]
            ELSE IF o.type = "bool" /\ option_value \notin {<<"yes">>, <<"no">>}
                 THEN [raised |-> "InvalidProjectModeOptionValue",
                       names |-> <<o.name>>]
            ELSE ProjectMode_options(
                     Tail(items),
                     dict_update(d, <<o.name>>,
                                 IF o.type = "bool"
                                 THEN <<option_value = <<"yes">>>>
                                 ELSE option_value))

\* ProjectMode.__init__(step) (projectmode/__init__.py:25-62), the call
\* without cache and without use_nightly_release
ProjectMode_init(project_mode_string) ==
    LET parsed == IF project_mode_string = <<>>
                  THEN [raised |-> "none", dict |-> <<>>]
                  ELSE parse_options(
                           str_split(SelectSeq(project_mode_string,
                                               LAMBDA t : t # " "), ";"),
                           <<>>, TRUE)
        typed == ProjectMode_options(parsed.dict, <<>>)
    IN IF parsed.raised # "none" THEN parsed
       ELSE IF typed.raised # "none" THEN typed
       ELSE [typed EXCEPT !.dict =
                dict_update(@, <<"cmtconfig">>,
                            IF dict_get(typed.dict, <<"cmtconfig">>) = <<>>
                            THEN <<"i686-slc5-gcc43-opt">>
                            ELSE dict_get(typed.dict, <<"cmtconfig">>))]

\* the engine reads a step's project_mode
get_project_mode_call ==
    /\ Returns("get_project_mode", get_project_mode(call.arg))

\* the option parser of the projectmode package reads it
ProjectMode_call ==
    /\ Returns("ProjectMode", ProjectMode_init(call.arg))

\* ------------------------------------------- one transformation parameter

\* _get_parameter_value (731-775): the value the tag has for the parameter,
\* '' when the tag has no such key or its value reads 'none' in any case
get_parameter_value(tag_value) ==
    IF tag_value = <<>> \/ tag_value[1] \in {"none", "None", "NONE"}
    THEN "" ELSE tag_value[1]

\* the turn of the loop over trf_params (2403) for one parameter name: what
\* is appended to job_parameters, or the error the turn raises.  A forced
\* skipEvents or maxEvents of project_mode comes before the tag (2526, 2574)
job_parameter(a) ==
    LET param_value == get_parameter_value(a.tag_value)
        events == /\ a.nEventsPerJob
                  /\ a.nEventsPerInputFile \/ a.use_real_nevents
        constant == [appended |-> "CONSTANT", raised |-> "none"]
        omitted == [appended |-> "nothing", raised |-> "none"]
    IN CASE a.name = "skipEvents" ->
              IF a.forced THEN constant
              ELSE IF param_value # "" THEN constant
              ELSE IF events THEN [appended |-> "SKIP_EVENTS", raised |-> "none"]
              ELSE omitted
         [] a.name = "maxEvents" ->
              IF a.forced THEN constant
              ELSE IF param_value # "" THEN constant
              ELSE IF events THEN [appended |-> "MAX_EVENTS", raised |-> "none"]
              ELSE omitted
         [] a.name = "firstEvent" ->
              IF param_value # "" THEN constant
              ELSE IF events THEN [appended |-> "FIRST_EVENT", raised |-> "none"]
              \* 2609: "firstEvents parameter is omitted" % step.id
              ELSE [appended |-> "nothing", raised |-> "TypeError"]
         [] OTHER ->
              IF param_value = "" THEN omitted ELSE constant

\* the parameters the turn is followed on: preExec stands for the names
\* that reach the last branch (2939)
JobParameterArgs ==
    [name : {"skipEvents", "maxEvents", "firstEvent", "preExec"},
     tag_value : {<<>>, <<"none">>, <<"None">>, <<"NONE">>, <<"10">>},
     forced : BOOLEAN,
     nEventsPerJob : BOOLEAN, nEventsPerInputFile : BOOLEAN,
     use_real_nevents : BOOLEAN]

job_parameter_call ==
    /\ Returns("job_parameter", job_parameter(call.arg))

\* ------------------------------------------------ register_task_output

\* the calls register_task_output is followed on: a store of dataset rows,
\* one row at most for a name, and the output names of task 1
RegisterOutputArgs ==
    LET names == {<<f, 1>> : f \in {"AOD", "log"}}
        rows == [name : names, task_id : {1, 2}]
    IN [store : {st \in SUBSET rows :
                    \A d, e \in st : d.name = e.name => d = e},
        output_params : SUBSET names \ {{}},
        task_id : {1}]

\* register_task_output is called, and called once more with the same
\* arguments on the store the first call left
register_task_output_call ==
    /\ call.fn = "register_task_output" /\ Len(call.out) < 2
    /\ LET a == call.arg
           store == IF call.out = <<>> THEN a.store ELSE call.out[1]
       IN call' = [call EXCEPT !.out = Append(@,
              save_datasets(store, {[name |-> n, task_id |-> a.task_id] :
                                       n \in a.output_params}))]
    /\ UNCHANGED <<engine, split>>

\* ------------------------------------- what one attempt leaves in the store

\* the attempts that are followed: the rows the attempt can write (the
\* input_events of the step and of its slice, the HashTag table) and what
\* decides its course: the request type, nEventsPerInputFile in the
\* configuration, the files the catalogue reports for the input,
\* commonOffset in project_mode, and the outcome of each check
AttemptArgs ==
    [store : [step_input_events : {10 * EventsPerFile},
              slice_input_events : {10 * EventsPerFile},
              hashtag : SUBSET {<<"_tco_", "grp">>}],
     request_type : {"MC", "GROUP"},
     nEventsPerInputFile : BOOLEAN,
     number_files : {8, 9, 10},
     commonOffset : {<<>>, <<"grp">>},
     consistency : BOOLEAN,
     number_of_jobs : {1, DEFAULT_MAX_NUMBER_OF_JOBS_PER_TASK + 1},
     scan : {"accepted", "duplicate", "nomore"}]

\* create_task_chain, 1957-1977: for an MC request with nEventsPerInputFile,
\* input that is short of the requested events by no more than the allowed
\* percentage lowers input_events of the step and of the slice; both rows
\* are saved
set_real_input_events(a) ==
    LET number_of_events == a.store.step_input_events
        real_input_events == EventsPerFile * a.number_files
    IN IF /\ a.request_type = "MC" /\ a.nEventsPerInputFile
          /\ real_input_events < number_of_events
          /\ (number_of_events - real_input_events) * 100
                 <= DEFAULT_ALLOWED_INPUT_EVENTS_DIFFERENCE * number_of_events
       THEN [a.store EXCEPT !.step_input_events = real_input_events,
                            !.slice_input_events = real_input_events]
       ELSE a.store

\* _check_task_input, 1153-1161: the hashtag of the common offset is
\* fetched, and created and saved when it is not there
get_hashtag(store, a) ==
    IF a.commonOffset = <<>> THEN store
    ELSE [store EXCEPT !.hashtag = @ \cup {<<"_tco_", a.commonOffset[1]>>}]

\* one turn of the registrar loop up to register_task, in the order of the
\* code: the input events (1957-1977), the consistency checks (3830-3836),
\* then _check_task_input: the job limit (1150-1151), the hashtag
\* (1153-1161), the duplicate scan and the capacity of the input (1174-1351)
create_task_chain_attempt(a) ==
    LET first == set_real_input_events(a)
        second == get_hashtag(first, a)
    IN IF a.consistency THEN [store |-> first, raised |-> "consistency"]
       ELSE IF a.number_of_jobs > DEFAULT_MAX_NUMBER_OF_JOBS_PER_TASK
            THEN [store |-> first, raised |-> "capacity"]
       ELSE [store |-> second,
             raised |-> IF a.scan = "accepted" THEN "none" ELSE a.scan]

create_task_chain_call ==
    Returns("create_task_chain", create_task_chain_attempt(call.arg))

InitChecks ==
    /\ EngineAtRest
    /\ split = NotCalled
    /\ call \in {Called("merge", a) : a \in MergeArgs}
                \cup {Called("jobs", a) : a \in JobArgs}
                \cup {Called("consistency", a) : a \in ConsistencyArgs}
                \cup {Called("get_project_mode", a) : a \in ProjectModeStrings}
                \cup {Called("ProjectMode", a) : a \in ProjectModeStrings}
                \cup {Called("job_parameter", a) : a \in JobParameterArgs}
                \cup {Called("register_task_output", a) : a \in RegisterOutputArgs}
                \cup {Called("create_task_chain", a) : a \in AttemptArgs}

NextChecks ==
    \/ merge_ratio_check
    \/ job_ceiling_check
    \/ events_consistency_check
    \/ get_project_mode_call
    \/ ProjectMode_call
    \/ job_parameter_call
    \/ register_task_output_call
    \/ create_task_chain_call

SpecChecks == InitChecks /\ [][NextChecks]_vars

\* ------------------------------------- _get_splitting_dict on a container

\* get_events_per_input_file(d) * get_number_files(d); the events per file
\* read 0 when neither catalog knows them (3987-3996)
EventsIn(d) == d.events_per_file * d.nfiles

\* get_events_in_datasets (4021-4027)
RECURSIVE get_events_in_datasets(_)
get_events_in_datasets(ds) ==
    IF ds = <<>> THEN 0
    ELSE EventsIn(Head(ds)) + get_events_in_datasets(Tail(ds))

\* the events of the tasks found on the member datasets, prior[k] being <<>>
\* when no task reads dataset k and <<n>> for a task of n events
RECURSIVE SumPrior(_)
SumPrior(prior) ==
    IF prior = <<>> THEN 0
    ELSE (IF Head(prior) = <<>> THEN 0 ELSE Head(prior)[1]) + SumPrior(Tail(prior))

\* a count that forgets the events processed
get_number_events_processed_none(legacy_events, prior) == 0

\* _get_number_events_processed (3873-3931): the total_events of the legacy
\* rows on the container, then the events of the tasks on its datasets
get_number_events_processed(legacy_events, prior) ==
    legacy_events + SumPrior(prior)

\* _get_processed_datasets (3933-3985): the datasets a task reads; the legacy
\* rows are left out
get_processed_datasets(prior) == {k \in DOMAIN prior : prior[k] # <<>>}

\* a shortfall test that accepts twice the shortfall
WithinShortfallDouble(requested, available) ==
    (requested - available) * 100 <= 20 * requested

\* 4375-4377: float(requested - available) / float(requested) * 100 <= 10
WithinShortfall(requested, available) ==
    (requested - available) * 100 <= 10 * requested

\* 4418-4421: the events an entry takes from the rest of a dataset
Taken(requested, rest) == IF requested > rest THEN rest ELSE requested

\* the sum of the number_events of a list of splitting entries
RECURSIVE SumEntries(_)
SumEntries(es) ==
    IF es = <<>> THEN 0 ELSE Head(es).number_events + SumEntries(Tail(es))

\* the inputs of a call: the request type, the step's input_events, the member
\* datasets in catalog order, the events of earlier tasks per dataset, the
\* events of the legacy rows
SplitArgs ==
    {[request_type |-> rt, input_events |-> ie, datasets |-> ds, prior |-> pr,
      legacy_events |-> le] :
        rt \in {"MC", "GROUP"},
        ie \in {AllEvents} \cup 1..(2 * MaxDatasetFiles + 1),
        le \in {0, 1},
        ds \in UNION {[1..n -> [events_per_file : {0, EventsPerFile},
                               nfiles : 0..MaxDatasetFiles]] : n \in 1..MaxDatasets},
        pr \in UNION {[1..n -> {<<>>, <<1>>, <<EventsPerFile>>}] :
                         n \in 1..MaxDatasets}}

InitSplit ==
    /\ EngineAtRest
    /\ call = NotCalled
    /\ \E a \in SplitArgs :
         /\ Len(a.prior) = Len(a.datasets)
         /\ \A k \in DOMAIN a.prior :
                a.prior[k] # <<>> => a.prior[k][1] <= EventsIn(a.datasets[k])
         /\ split = [fn |-> "split", pc |-> "start", arg |-> a,
                     container |-> 0, processed |-> 0, requested |-> 0,
                     granted |-> 0, start_offset |-> 0, k |-> 0,
                     entries |-> <<>>, error |-> ""]

\* the function returns splitting_dict or raises error
SplitEnds(new, error) ==
    split' = [new EXCEPT !.pc = "done", !.error = error]

\* 4346-4381: the container's events, the events processed, the events
\* requested and the shortfall rule; then the branch one of the loops takes
split_requested ==
    /\ split.fn = "split" /\ split.pc = "start"
    /\ LET a == split.arg
           container == get_events_in_datasets(a.datasets)
           processed == get_number_events_processed(a.legacy_events, a.prior)
           wanted == IF a.input_events > 0 THEN a.input_events
                     ELSE container - processed
           available == container - processed
           short == wanted + processed > container
           granted == IF short THEN available ELSE wanted
           seen == [split EXCEPT !.container = container,
                                 !.processed = processed]
       IN IF container = 0 THEN SplitEnds(seen, "NoEvents")
          ELSE IF wanted <= 0 THEN SplitEnds(seen, "NotEnoughEvents")
          ELSE IF short /\ ~WithinShortfall(wanted, available)
               THEN SplitEnds(seen, "NotEnoughEvents")
          ELSE split' = [seen EXCEPT
                            !.requested = granted, !.granted = granted, !.k = 1,
                            !.pc = IF a.input_events <= 0 /\ a.request_type = "GROUP"
                                   THEN "group" ELSE "loop"]
    /\ UNCHANGED <<engine, call>>

\* 4383-4400: one dataset of a group request for all events
split_group_dataset ==
    /\ split.fn = "split" /\ split.pc = "group"
    /\ LET a == split.arg
           k == split.k
       IN IF k > Len(a.datasets) THEN SplitEnds(split, "")
          ELSE IF k \in get_processed_datasets(a.prior)
               THEN split' = [split EXCEPT !.k = k + 1]
          ELSE IF a.datasets[k].events_per_file = 0 THEN SplitEnds(split, "")
          ELSE split' = [split EXCEPT
                   !.k = k + 1,
                   !.entries = IF EventsIn(a.datasets[k]) # 0
                               THEN Append(@, [dataset |-> k, offset |-> 0,
                                               number_events |-> EventsIn(a.datasets[k])])
                               ELSE @]
    /\ UNCHANGED <<engine, call>>

\* 4402-4432: one dataset of the loop that cuts the requested events out of
\* the datasets behind the events processed
split_loop_dataset ==
    /\ split.fn = "split" /\ split.pc = "loop"
    /\ LET a == split.arg
           k == split.k
       IN IF k > Len(a.datasets) THEN SplitEnds(split, "")
          ELSE IF a.datasets[k].events_per_file = 0 THEN SplitEnds(split, "")
          ELSE LET in_dataset == EventsIn(a.datasets[k])
                   skipped == split.start_offset + in_dataset < split.processed
                   offset == IF skipped THEN 0
                             ELSE split.processed - split.start_offset
                   number_events == IF skipped THEN 0
                                    ELSE Taken(split.requested, in_dataset - offset)
                   last == ~skipped /\ ~(split.requested > in_dataset - offset)
                   after == [split EXCEPT
                       !.start_offset = @ + in_dataset,
                       !.requested = @ - number_events,
                       !.processed = @ + number_events,
                       !.k = k + 1,
                       !.entries = IF number_events # 0
                                   THEN Append(@, [dataset |-> k,
                                        offset |-> offset \div a.datasets[k].events_per_file,
                                        number_events |-> number_events])
                                   ELSE @]
               IN IF last THEN SplitEnds(after, "") ELSE split' = after
    /\ UNCHANGED <<engine, call>>

NextSplit ==
    \/ split_requested
    \/ split_group_dataset
    \/ split_loop_dataset

SpecSplit == InitSplit /\ [][NextSplit]_vars

\* ----------------------------- the steps of one slice, from queue to tasks

\* the steps of the slice; 0 is a step of another slice that a step of this
\* one may have as its parent
SliceSteps == 1..MaxChainSteps

StepStatuses == {"Approved", "NotChecked", "Waiting"}

\* a chain walk that takes every child
is_approved_any(status) == TRUE

\* step.status.lower() == STEP_STATUS[StepStatus.APPROVED].lower()
is_approved(status) == status = "Approved"

\* StepExecution.objects.filter(request, status=Approved, slice).order_by('id')
approved_steps(c) ==
    SortedSeq({s \in SliceSteps : is_approved(c.status[s])})

\* _build_linked_step_list, 4596-4602: the loop that moves the steps whose
\* parent is not in temporary_list to result_list, popping while it iterates
RECURSIVE other_chain_steps(_, _, _, _)
other_chain_steps(c, temporary_list, index, result_list) ==
    IF index > Len(temporary_list)
    THEN [temporary_list |-> temporary_list, result_list |-> result_list]
    ELSE IF c.parent[temporary_list[index]] \notin Range(temporary_list)
         THEN other_chain_steps(
                  c,
                  SubSeq(temporary_list, 1, index - 1)
                      \o SubSeq(temporary_list, index + 1, Len(temporary_list)),
                  index + 1,
                  Append(result_list, temporary_list[index]))
         ELSE other_chain_steps(c, temporary_list, index + 1, result_list)

\* 4603-4609: n more times, the first step of temporary_list whose parent is
\* the last of result_list; IndexError on an empty result_list, ValueError
\* when no step follows
RECURSIVE linked_steps(_, _, _, _)
linked_steps(c, temporary_list, result_list, n) ==
    IF n = 0 THEN [raised |-> FALSE, list |-> result_list]
    ELSE IF result_list = <<>> THEN [raised |-> TRUE, list |-> <<>>]
    ELSE LET js == {j \in 1..Len(temporary_list) :
                       c.parent[temporary_list[j]]
                           = result_list[Len(result_list)]}
         IN IF js = {} THEN [raised |-> TRUE, list |-> <<>>]
            ELSE linked_steps(c, temporary_list,
                              Append(result_list, temporary_list[Min(js)]),
                              n - 1)

\* _build_linked_step_list (4580-4610)
build_linked_step_list(c) ==
    LET step_list == approved_steps(c)
        roots == SelectSeq(step_list, LAMBDA s : c.parent[s] = s)
        others == SelectSeq(step_list, LAMBDA s : c.parent[s] # s)
        moved == IF roots = <<>>
                 THEN other_chain_steps(c, others, 1, <<>>)
                 ELSE [temporary_list |-> others, result_list |-> roots]
    IN IF Len(roots) > 1 THEN [raised |-> TRUE, list |-> <<>>]
       ELSE linked_steps(c, moved.temporary_list, moved.result_list,
                         Len(moved.temporary_list))

\* the output names of task tid: one per format of the step template, and
\* 'log' (taskdef.py:2322-2323); the name of the slice's own input has tid 0
output_params(tid) ==
    {[data_type |-> f, tid |-> tid] : f \in Formats \cup {"log"}}

\* a task of an earlier invocation, its output registered
SliceTask(id, s, status) ==
    [id |-> id, step |-> s, status |-> status, parent_id |-> id,
     chain_id |-> id]

\* the stores the slice is met with: task 1 on the step of the other slice or
\* on step 1, task 2 on the step of the other slice
SliceStores ==
    {one \cup two :
        one \in {{}} \cup {{SliceTask(1, 0, st)} : st \in {"done", "failed"}}
                     \cup {{SliceTask(1, 1, "done")}},
        two \in {{}} \cup {{SliceTask(2, 0, st)} : st \in {"done", "failed"}}}

\* the slice as the request loop meets it: the status and the parent of
\* each step (a parent was created before its child), input_format of the
\* step configurations
SliceCall(status, parent, input_format) ==
    [fn |-> "define_tasks", pc |-> "slice",
     status |-> status, parent |-> parent, input_format |-> input_format,
     steps_in_slice |-> <<>>, first_steps |-> <<>>, step |-> 0,
     first_step |-> 0, restart |-> FALSE, first_parent_task_id |-> 0,
     parent_task_id |-> 0, chain_id |-> 0, input_params |-> {},
     chain |-> <<>>, tasks |-> <<>>, raised |-> "none"]

InitSlice ==
    /\ step = [s \in StepIds |-> StepRow(s, Plain)]
    /\ request = [r \in ReqIds |->
                     [status |-> "approved", locked |-> TRUE, exception |-> FALSE]]
    /\ task \in SliceStores
    /\ dataset = UNION {{[name |-> n, task_id |-> t.id] :
                            n \in output_params(t.id)} : t \in task}
    /\ lastId = 2
    /\ run = [x \in Runs |-> IdleRun]
    /\ rejected = {}
    /\ clean = [r \in ReqIds |-> FALSE]
    /\ updates = 0
    /\ legacy = {}
    /\ split = NotCalled
    /\ call \in {SliceCall(status, parent, input_format) :
                    status \in [SliceSteps \cup {0} -> StepStatuses],
                    parent \in {f \in [SliceSteps -> SliceSteps \cup {0}] :
                                   \A s \in SliceSteps : f[s] <= s},
                    input_format \in {<<>>, <<"AOD">>}}

\* get_step_tasks (taskreg.py:180-190)
get_step_tasks(s) ==
    {t.id : t \in {u \in TasksOfStep(s) : u.status \notin TerminalFailure}}

\* get_parent_task_id (taskreg.py:200-208)
get_parent_task_id(c, s, task_id) ==
    IF c.parent[s] = s \/ get_step_tasks(c.parent[s]) = {} THEN task_id
    ELSE CHOOSE id \in get_step_tasks(c.parent[s]) :
             \A other \in get_step_tasks(c.parent[s]) : other <= id

\* get_step_output(step_id, task_id=task_id) (taskreg.py:163-178): with a task
\* id the task is taken by its id alone, whatever its step
get_step_output_task(s, task_id) ==
    IF task_id = 0 THEN get_step_output(s, TRUE)
    ELSE {d.name : d \in {e \in dataset :
             /\ e.task_id = task_id
             /\ \E t \in task : t.id = task_id /\ t.status \notin TerminalFailure}}

\* an input resolution that keeps the log of the parent task
get_input_params_with_log(c, s, restart, external) ==
    IF c.parent[s] = s \/ (s = c.first_step /\ ~restart) THEN external
    ELSE {n \in get_step_output_task(c.parent[s], c.parent_task_id) :
             c.input_format = <<>> \/ n.data_type \in Range(c.input_format)}

\* get_input_params (taskdef.py:536-599): external is what the first branch
\* finds for the slice's own input
get_input_params(c, s, restart, external) ==
    IF c.parent[s] = s \/ (s = c.first_step /\ ~restart) THEN external
    ELSE {n \in get_step_output_task(c.parent[s], c.parent_task_id) :
             /\ n.data_type # "log"
             /\ c.input_format = <<>> \/ n.data_type \in Range(c.input_format)}

\* _define_tasks_for_requests, 4636-4650, restart not set: the approved
\* steps of the slice, linked when _build_linked_step_list succeeds; the
\* first of them without an output opens the chain
define_tasks_slice ==
    /\ call.fn = "define_tasks" /\ call.pc = "slice"
    /\ LET built == build_linked_step_list(call)
           steps_in_slice == IF built.raised THEN approved_steps(call)
                             ELSE built.list
           open == SelectSeq(steps_in_slice,
                             LAMBDA s : get_step_output(s, FALSE) = {})
       IN call' = [call EXCEPT
              !.steps_in_slice = steps_in_slice,
              !.first_steps = IF open = <<>> THEN <<>> ELSE <<open[1]>>,
              !.pc = IF open = <<>> THEN "done" ELSE "first"]
    /\ UNCHANGED <<engine, split>>

\* create_task_chain(step_id, restart, first_parent_task_id) up to its loop
\* over the parent links (1574-1594)
ChainCreated(c, s, restart, first_parent_task_id) ==
    [c EXCEPT !.step = s, !.chain = <<s>>, !.pc = "walk",
              !.first_step = s, !.restart = restart,
              !.first_parent_task_id = first_parent_task_id,
              !.parent_task_id = IF first_parent_task_id # 0
                                 THEN first_parent_task_id
                                 ELSE get_parent_task_id(c, s, 0)]

\* 4653-4762 for the step of first_steps: a waiting parent skips the chain;
\* on a container input create_task_chain is called for the step; otherwise
\* a not-checked parent raises, an approved parent has the chain created
\* for one of its tasks that has not failed (4738-4742), if it has any
define_tasks_first_step ==
    /\ call.fn = "define_tasks" /\ call.pc = "first"
    /\ LET s == call.first_steps[1]
           parent_status == call.status[call.parent[s]]
       IN \/ /\ parent_status = "Waiting"
             /\ call' = [call EXCEPT !.pc = "done"]
          \/ /\ parent_status # "Waiting"
             /\ \E container \in BOOLEAN :
                   IF container \/ call.parent[s] = s
                   THEN call' = ChainCreated(call, s, FALSE, 0)
                   ELSE IF is_approved(parent_status)
                        THEN IF get_step_tasks(call.parent[s]) = {}
                             THEN call' = [call EXCEPT !.pc = "done"]
                             ELSE \E task_id \in get_step_tasks(call.parent[s]) :
                                     call' = ChainCreated(call, s, TRUE, task_id)
                        ELSE call' = [call EXCEPT !.pc = "done",
                                                  !.raised = "Exception"]
    /\ UNCHANGED <<engine, split>>

\* a chain that takes the child in front of the steps it already has
chain_prepend(chain, child) == <<child>> \o chain

\* chain.append(step), 1600: the child goes behind the steps of the chain
chain_append(chain, child) == Append(chain, child)

\* create_task_chain, 1596-1602: one turn of the loop that follows the
\* parent links within the slice
chain_walk(c) ==
    LET children == {s \in SliceSteps : s # c.step /\ c.parent[s] = c.step}
        child == CHOOSE s \in children : TRUE
    IN IF children = {} THEN [c EXCEPT !.pc = "input"]
       ELSE IF Cardinality(children) > 1
            THEN [c EXCEPT !.pc = "done", !.raised = "MultipleObjectsReturned"]
       ELSE [c EXCEPT
                !.step = child,
                !.chain = IF is_approved(c.status[child])
                          THEN chain_append(@, child) ELSE @]

create_task_chain_walk ==
    /\ call.fn = "define_tasks" /\ call.pc = "walk"
    /\ call' = chain_walk(call)
    /\ UNCHANGED <<engine, split>>

\* create_task_chain, 1607-2119, for the next step of the chain: the input
\* is resolved, a second time as under restart when the first result is
\* empty (1940-1944); no input at all raises (2118-2119)
create_task_chain_input ==
    /\ call.fn = "define_tasks" /\ call.pc = "input"
    /\ LET s == Head(call.chain)
       IN \E external \in {{}, {[data_type |-> "AOD", tid |-> 0]}} :
             LET first == get_input_params(call, s, call.restart, external)
                 input_params ==
                     IF first # {} THEN first
                     ELSE get_input_params(call, s, TRUE, external)
             IN call' = IF input_params = {}
                        THEN [call EXCEPT !.pc = "done", !.raised = "Exception"]
                        ELSE [call EXCEPT !.pc = "regtask", !.step = s,
                                          !.input_params = input_params]
    /\ UNCHANGED <<engine, split>>

\* a chain id that is the task's own id on every step
chain_id_own(c, s, task_id) == task_id

\* 3846-3847: the task of the first step gives the chain its id
chain_id_of(c, s, task_id) ==
    IF s = c.first_step THEN task_id ELSE c.chain_id

\* 2120-3862: the task of the step is built and checked, which may raise;
\* it gets the next id (register_task_id, 3800), the first step sets the
\* chain id and the parent task id (3846-3852), register_task saves the row
create_task_chain_register_task ==
    /\ call.fn = "define_tasks" /\ call.pc = "regtask"
    /\ \/ /\ call' = [call EXCEPT !.pc = "done", !.raised = "Exception"]
          /\ UNCHANGED <<task, lastId>>
       \/ LET s == call.step
              task_id == lastId + 1
              first == s = call.first_step
              chain_id == chain_id_of(call, s, task_id)
              parent_task_id ==
                  IF ~first THEN call.parent_task_id
                  ELSE IF call.first_parent_task_id # 0
                       THEN call.first_parent_task_id
                       ELSE get_parent_task_id(call, s, task_id)
          IN /\ lastId' = task_id
             /\ task' = task \cup
                    {[id |-> task_id, step |-> s, status |-> "waiting",
                      parent_id |-> parent_task_id, chain_id |-> chain_id]}
             /\ call' = [call EXCEPT !.pc = "regout",
                                     !.chain_id = chain_id,
                                     !.parent_task_id = parent_task_id,
                                     !.tasks = Append(@, s)]
    /\ UNCHANGED <<request, step, dataset, run, rejected, clean, updates,
                   legacy, split>>

\* 3864-3871: register_task_output, then parent_task_id = task_id and the
\* loop goes to the next step of the chain
create_task_chain_register_output ==
    /\ call.fn = "define_tasks" /\ call.pc = "regout"
    /\ dataset' = save_datasets(
                       dataset,
                       {[name |-> n, task_id |-> lastId] :
                           n \in output_params(lastId)})
    /\ call' = [call EXCEPT !.parent_task_id = lastId,
                            !.chain = Tail(@),
                            !.input_params = {},
                            !.pc = IF Tail(call.chain) = <<>> THEN "done"
                                   ELSE "input"]
    /\ UNCHANGED <<request, step, task, lastId, run, rejected, clean, updates,
                   legacy, split>>

NextSlice ==
    \/ define_tasks_slice
    \/ define_tasks_first_step
    \/ create_task_chain_walk
    \/ create_task_chain_input
    \/ create_task_chain_register_task
    \/ create_task_chain_register_output

SpecSlice == InitSlice /\ [][NextSlice]_vars

\* ---------------------------------------- chain walk on any parent links

\* the entries of the chain that are kept: more than a slice has steps
MaxWalkChain == 5

\* create_task_chain is called for a step of a slice whose rows carry any
\* parent links, those that lead round in a circle included; the store
\* holds no task
InitWalk ==
    /\ step = [s \in StepIds |-> StepRow(s, Plain)]
    /\ request = [r \in ReqIds |->
                     [status |-> "approved", locked |-> TRUE, exception |-> FALSE]]
    /\ task = {}
    /\ dataset = {}
    /\ lastId = 2
    /\ run = [x \in Runs |-> IdleRun]
    /\ rejected = {}
    /\ clean = [r \in ReqIds |-> FALSE]
    /\ updates = 0
    /\ legacy = {}
    /\ split = NotCalled
    /\ call \in {ChainCreated(SliceCall(status, parent, <<>>), s, FALSE, 0) :
                    status \in [SliceSteps \cup {0} -> StepStatuses],
                    parent \in [SliceSteps -> SliceSteps \cup {0}],
                    s \in SliceSteps}

\* one turn of the loop at 1596-1602.  The loop does not read the chain it
\* appends to; of a chain that grows without end the first MaxWalkChain
\* entries are kept
create_task_chain_walk_turn ==
    /\ call.fn = "define_tasks" /\ call.pc = "walk"
    /\ call' = [chain_walk(call) EXCEPT
                   !.chain = SubSeq(@, 1, Min({Len(@), MaxWalkChain}))]
    /\ UNCHANGED <<engine, split>>

NextWalk == create_task_chain_walk_turn

\* the loop runs on while it has a turn to take
SpecWalk == InitWalk /\ [][NextWalk]_vars /\ WF_vars(NextWalk)

\* ------------------------------------------------------------------- claims

Active(t) == t.status \notin TerminalFailure

\* the invocation x is inside the loop over the chains of a request
InChains(x) == run[x].pc \in {"chain", "regtask", "regout"}

\* the invocation x holds a candidate that has passed every check
Accepted(x) == run[x].pc \in {"regtask", "regout"}

\* the candidates the steps of the store render when no fault and no name
\* check stops them before the scan
Scanned == {Candidate(s, 0) : s \in {u \in StepIds : step[u].fault = "none"}}

\* C1: every request an invocation has locked is unlocked when the
\* invocation ends, whether it returns or raises.
C1_UnlockedAtEnd ==
    [][\A x \in Runs :
          (run[x].pc # "done" /\ run'[x].pc = "done")
              => \A r \in run[x].locked : ~request'[r].locked]_vars

\* C2: while one invocation is processing a request it has locked, no other
\* invocation is processing the chains of that request.
C2_OneRunPerRequest ==
    \A x \in Runs : \A y \in Runs \ {x} :
        ~(/\ run[x].pc \in {"request", "chain", "regtask", "regout", "endreq"}
          /\ InChains(y)
          /\ Current(x) = Current(y))

C6_NoRecordOfRejected ==
    \A id \in rejected :
        /\ \A t \in task : t.id # id
        /\ \A d \in dataset : d.task_id # id

C6_Witness ==
    \E id \in rejected : \E t \in task : t.id > id

C8_NothingRaisedToCaller ==
    \A x \in Runs : run[x].raised = ""

C10_AcceptedOnlyIfFits ==
    \A x \in Runs :
        run[x].pc = "regtask" =>
            run[x].cand.requested + run[x].cand.used <= run[x].cand.total

\* C10 amended: outside reuse mode a candidate is accepted only if the
\* files it requests and the files used so far fit in the input, and a
\* candidate that does not fit ends in 'no more input files'.
C10_FitsUnlessReuse ==
    /\ \A x \in Runs :
         run[x].pc = "regtask" =>
             \/ run[x].cand.reuse
             \/ /\ run[x].cand.requested >= 0
                /\ run[x].cand.requested + run[x].cand.used <= run[x].cand.total
    /\ \A c \in Scanned :
         LET used == number_of_input_files_used(c, task)
             wanted == number_input_files_requested(c, task)
             fits == wanted >= 0 /\ wanted + used <= get_number_files(InputX)
             out == check_task_input(c, task)
         IN /\ "accepted" \in out => (c.reuse \/ fits)
            /\ "nomore" \in out => (~c.reuse /\ ~fits)
            /\ (out \cap {"accepted", "nomore"} # {} /\ ~c.reuse /\ ~fits)
                   => out = {"nomore"}

C10_Witness ==
    \E x \in Runs :
        /\ run[x].pc = "regtask" /\ ~run[x].cand.reuse
        /\ run[x].cand.used > 0
        /\ run[x].cand.requested + run[x].cand.used = run[x].cand.total

\* the consumption of task t is recorded nowhere: no nFiles in its parameter
\* document and no JediDataset counter the scan could convert
Undetermined(t) ==
    /\ t.nFiles = <<>>
    /\ ~(t.status \in {"done", "finished"} /\ t.evcfg /\ t.jedi # <<>>)

\* C11: no candidate passes the scan while a matching task that is not in a
\* terminal-failure status has a file consumption that cannot be determined:
\* such a candidate is rejected with a duplication error.
C11_UndeterminedAlwaysRejected ==
    \A x \in Runs :
        run[x].pc = "regtask" =>
            \A t \in Matching(run[x].cand, task) : ~Undetermined(t)

\* C12 as stated: every merge candidate with a primary input and equal,
\* positive per-job and per-input-file event counts that reaches the input
\* check is rejected with the merge error.
C12_EqualCountsAlwaysRejected ==
    (/\ call.fn = "merge" /\ call.out # <<>>
     /\ ~call.arg.skip_check_input /\ call.arg.has_input
     /\ call.arg.prod_step = "merge"
     /\ call.arg.nEventsPerJob > 0
     /\ call.arg.nEventsPerJob = call.arg.nEventsPerInputFile)
        => call.out[1] = "InvalidMerge"

\* C12 amended: when the input check is applied to a merge candidate with a
\* primary input whose version ends with the step's own tag, equal positive
\* event counts are rejected whatever the files per job, the size per job
\* and the requested events; a candidate whose input version does not end
\* with the step's tag is never rejected by this check.
C12_RejectedWhenInputCarriesTag ==
    (call.fn = "merge" /\ call.out # <<>>) =>
        LET a == call.arg
            applied == ~a.skip_check_input /\ a.has_input /\ a.prod_step = "merge"
        IN /\ (/\ applied /\ VersionEndsWith(a.version, a.ctag)
                /\ a.nEventsPerJob > 0
                /\ a.nEventsPerJob = a.nEventsPerInputFile)
                   => call.out[1] = "InvalidMerge"
           /\ ~(applied /\ VersionEndsWith(a.version, a.ctag))
                   => call.out[1] # "InvalidMerge"

C12_Witness ==
    /\ call.fn = "merge" /\ call.out = <<"InvalidMerge">>
    /\ call.arg.nEventsPerJob > 0
    /\ call.arg.nFilesPerJob > 1 /\ call.arg.nGBPerJob > 0
    /\ call.arg.number_of_events = AllEvents

\* a call of _get_splitting_dict has got past the shortfall rule
Splitting == split.fn = "split" /\ split.pc # "start"

\* the call cuts the requested events out of the datasets (4401-4432); the
\* other branch lists whole datasets for a group request of all events
OffsetBranch ==
    ~(split.arg.input_events <= 0 /\ split.arg.request_type = "GROUP")

\* the events processed before the call, from the call's inputs
ProcessedBefore == split.arg.legacy_events + SumPrior(split.arg.prior)

\* C13 as stated: once a call has produced a splitting entry, the events of
\* the entries produced so far plus the events processed before the call
\* never exceed the events of the container's datasets.
C13_EntriesPlusProcessedWithinContainer ==
    (Splitting /\ split.entries # <<>>) =>
        SumEntries(split.entries) + ProcessedBefore
            <= get_events_in_datasets(split.arg.datasets)

\* C13 amended: the bound holds whenever the entries are cut out by offsets;
\* for a group request of all events every entry is a whole dataset that no
\* task reads, and the entries alone stay within the container.
C13_WithinContainerByOffsets ==
    (Splitting /\ split.entries # <<>>) =>
        /\ OffsetBranch =>
               SumEntries(split.entries) + ProcessedBefore
                   <= get_events_in_datasets(split.arg.datasets)
        /\ ~OffsetBranch =>
               /\ \A i \in DOMAIN split.entries :
                      /\ split.arg.prior[split.entries[i].dataset] = <<>>
                      /\ split.entries[i].number_events =
                             EventsIn(split.arg.datasets[split.entries[i].dataset])
               /\ SumEntries(split.entries)
                      <= get_events_in_datasets(split.arg.datasets)

C13_Witness ==
    /\ Splitting /\ split.pc = "done" /\ OffsetBranch
    /\ ProcessedBefore > 0
    /\ Len(split.entries) = MaxDatasets
    /\ SumEntries(split.entries) + ProcessedBefore
           = get_events_in_datasets(split.arg.datasets)

\* C14: a call that cuts entries out by offsets and returns without error
\* returns entries whose events sum to the requested count, as reduced by
\* the shortfall rule.
C14_EntriesSumToRequested ==
    (Splitting /\ split.pc = "done" /\ split.error = "" /\ OffsetBranch)
        => SumEntries(split.entries) = split.granted

\* C15: when the events requested exceed the events left in a container that
\* has events, the call goes on with the events left if the shortfall is at
\* most a tenth of the request and ends in 'not enough events' otherwise.
C15_ShortfallRule ==
    LET container == get_events_in_datasets(split.arg.datasets)
        available == container - ProcessedBefore
        wanted == split.arg.input_events
    IN (Splitting /\ container > 0 /\ wanted > 0 /\ wanted > available) =>
           IF (wanted - available) * 10 <= wanted
           THEN split.error = "" /\ split.granted = available
           ELSE split.pc = "done" /\ split.error = "NotEnoughEvents"

C15_Witness ==
    /\ Splitting /\ split.pc = "done" /\ split.error = ""
    /\ split.arg.input_events > split.granted
    /\ split.granted > 0
    /\ SumEntries(split.entries) = split.granted

\* the job counts the engine computes for the candidate of the call: the one
\* of create_task_chain, and the one of the input check when it is reached
ComputedJobCounts ==
    LET a == call.arg
    IN (IF a.number_of_events > 0 /\ a.has_nEventsPerJob /\ a.nEventsPerJob > 0
        THEN {a.number_of_events \div a.nEventsPerJob} ELSE {})
       \cup
       (IF /\ ~a.skip_check_input /\ a.has_input /\ a.number_of_events <= 0
           /\ a.has_nEventsPerJob /\ a.nEventsPerJob > 0 /\ a.total_files > 0
        THEN {(a.total_files * a.nEventsPerInputFile) \div a.nEventsPerJob}
        ELSE {})

C17_OverlapMatchesInBothSources ==
    \A x \in Runs :
        run[x].pc = "regtask" =>
            LET c == run[x].cand
            IN /\ \A t \in task :
                      (/\ Active(t) /\ t.dsn[2] = c.dsn[2]
                       /\ t.output_formats \cap c.formats # {})
                          => t \in Matching(c, task)
               /\ \A r \in legacy :
                      (/\ r.status \notin TerminalFailure /\ r.inputdataset = c.dsn
                       /\ r.formats \cap c.formats # {})
                          => r \in LegacyMatching(c, legacy)

\* b is a multiple of a
Divides(a, b) == \E k \in 0..b : a * k = b

\* C18: whenever the consistency check is applied, the construction raises
\* the inconsistency error if neither of nEventsPerInputFile and
\* nEventsPerJob is a multiple of the other, and does not raise it if one is
\* a multiple of the other.
C18_InconsistentIffNeitherDivides ==
    (call.fn = "consistency" /\ call.out # <<>> /\ consistency_applied(call.arg)) =>
        LET f == call.arg.nEventsPerInputFile
            j == call.arg.nEventsPerJob
        IN (call.out[1] = "Inconsistent") <=> ~(Divides(f, j) \/ Divides(j, f))

C18_Witness ==
    /\ call.fn = "consistency" /\ call.out = <<"Inconsistent">>
    /\ call.arg.nEventsPerInputFile = 250
    /\ call.arg.nEventsPerJob = 375

\* the keys of a project_mode string that projectmode.json does not declare:
\* the names in front of the first '=' of an option
UndeclaredKeys(project_mode_string) ==
    LET options == str_split(SelectSeq(project_mode_string,
                                       LAMBDA t : t # " "), ";")
    IN {Lower(str_split(options[i], "=")[1]) :
            i \in {j \in 1..Len(options) :
                       /\ \E n \in 1..Len(options[j]) : options[j][n] = "="
                       /\ options[j][1] # "="}}
       \ option_names

\* C19: whenever the engine has parsed a step's project_mode string that
\* contains a key the option schema does not declare, the parse has raised
\* the error that names such a key, whatever the value of the key.
C19_UndeclaredKeyAlwaysRaises ==
    (/\ call.fn = "get_project_mode" /\ call.out # <<>>
     /\ UndeclaredKeys(call.arg) # {})
    => /\ call.out[1].raised = "UnknownProjectModeOption"
       /\ call.out[1].names \in UndeclaredKeys(call.arg)

\* C20: a task is registered only for a step whose approval status is
\* approved: no step with a task is in waiting or not-checked status.
C20_TasksOnlyForApprovedSteps ==
    call.fn = "define_tasks"
    => \A i \in 1..Len(call.tasks) :
           /\ call.status[call.tasks[i]] = "Approved"
           /\ call.status[call.tasks[i]] \notin {"Waiting", "NotChecked"}

\* a chain whose walk passed a step that is not approved: the step before it
\* and the step after it have their tasks, the step itself has none
C20_Witness ==
    /\ call.fn = "define_tasks"
    /\ \E i, k \in 1..Len(call.tasks) :
          /\ i < k
          /\ \E u \in SliceSteps :
                /\ call.status[u] \in {"Waiting", "NotChecked"}
                /\ call.parent[u] = call.tasks[i]
                /\ call.parent[call.tasks[k]] = u
                /\ \A n \in 1..Len(call.tasks) : call.tasks[n] # u

\* the input of the step has just been resolved
InputResolved == call.fn = "define_tasks" /\ call.pc = "regtask"

\* the names among ns that the step takes: no log, and only the formats of
\* input_format when the configuration has it
Admitted(ns) ==
    {n \in ns : /\ n.data_type # "log"
                /\ call.input_format # <<>>
                   => n.data_type \in Range(call.input_format)}

RegisteredHere == {t \in task : t.id > 2}

\* p is the step before s in the chain of s: the nearest approved step on
\* the parent links of s
Precedes(p, s) ==
    \E n \in 1..MaxChainSteps :
       \E path \in [0..n -> SliceSteps] :
          /\ path[0] = s /\ path[n] = p
          /\ call.status[p] = "Approved"
          /\ \A i \in 1..n : /\ path[i] = call.parent[path[i - 1]]
                             /\ path[i] # path[i - 1]
          /\ \A i \in 1..(n - 1) : call.status[path[i]] # "Approved"

C23_AbsentValueOmittedWithoutError ==
    (/\ call.fn = "job_parameter" /\ call.out # <<>>
     /\ ~call.arg.forced
     /\ call.arg.tag_value \in {<<>>, <<"none">>})
    => /\ call.out[1].raised = "none"
       /\ call.out[1].appended
              = IF /\ call.arg.name \in {"skipEvents", "maxEvents", "firstEvent"}
                   /\ call.arg.nEventsPerJob
                   /\ call.arg.nEventsPerInputFile \/ call.arg.use_real_nevents
                THEN CASE call.arg.name = "skipEvents" -> "SKIP_EVENTS"
                       [] call.arg.name = "maxEvents" -> "MAX_EVENTS"
                       [] call.arg.name = "firstEvent" -> "FIRST_EVENT"
                ELSE "nothing"

\* C24: registering the output of a task is idempotent: a name that is in
\* the store is skipped, so the store has one record for a name, the records
\* that were there are unchanged, and a repeated registration changes nothing.
C24_RegisterOutputIdempotent ==
    (call.fn = "register_task_output" /\ call.out # <<>>)
    => /\ \A d, e \in call.out[1] : d.name = e.name => d = e
       /\ call.arg.store \subseteq call.out[1]
       /\ \A n \in call.arg.output_params : \E d \in call.out[1] : d.name = n
       /\ Len(call.out) = 2 => call.out[2] = call.out[1]

\* the registration was repeated on a store that held one of the names under
\* another task and lacked another name
C24_Witness ==
    /\ call.fn = "register_task_output" /\ Len(call.out) = 2
    /\ \E d \in call.arg.store :
          d.name \in call.arg.output_params /\ d.task_id # call.arg.task_id
    /\ \E n \in call.arg.output_params : \A d \in call.arg.store : d.name # n

\* C25: the steps of a chain are processed from parent to child, and when
\* the input of a step behind the first is resolved, the task of the step
\* before it in the chain and every output dataset of that task are in the
\* store.
C25_ParentPersistedBeforeChildInput ==
    call.fn = "define_tasks"
    => /\ \A j \in 2..Len(call.tasks) :
             Precedes(call.tasks[j - 1], call.tasks[j])
       /\ (InputResolved /\ call.step # call.first_step)
          => \E t \in RegisteredHere :
                /\ t.id = call.parent_task_id
                /\ Precedes(t.step, call.step)
                /\ \A n \in output_params(t.id) :
                      \E d \in dataset : d.name = n /\ d.task_id = t.id

\* the input of the third step of a chain is resolved: the tasks of the two
\* steps before it are registered, in the order of the parent links
C25_Witness ==
    /\ InputResolved
    /\ Len(call.tasks) = 2
    /\ call.parent[call.step] = call.tasks[2]
    /\ call.parent[call.tasks[2]] = call.tasks[1]
    /\ call.step \notin {call.tasks[1], call.tasks[2]}

\* C26: following the steps of a chain from its first step comes to an end on
\* every store, also on parent links that lead round in a circle.
C26_ChainWalkTerminates == <>(call.pc # "walk")

\* C27: an accepted candidate starts at or behind the files the matching
\* tasks have consumed, so the file ranges [offset, offset + files) of the
\* tasks that have not failed, read the same input and share an output
\* format do not overlap.  Tasks in reuse-input mode, which start at the
\* first file by design (1337-1342), are left aside.
C27_OffsetPastConsumedFiles ==
    /\ \A x \in Runs :
          (run[x].pc = "regtask" /\ ~run[x].cand.reuse)
              => run[x].cand.offset >= run[x].cand.used
    /\ \A t \in task, u \in task :
          (/\ t.id # u.id /\ Active(t) /\ Active(u)
           /\ t.inputdataset = u.inputdataset
           /\ t.output_formats \cap u.output_formats # {}
           /\ t.nFiles # <<>> /\ u.nFiles # <<>>
           /\ ~step[t.step].reuse /\ ~step[u.step].reuse)
              => \/ t.offset + t.nFiles[1] <= u.offset
                 \/ u.offset + u.nFiles[1] <= t.offset

\* C28: whenever a task in status waiting is in the store, where the
\* scheduler that polls the store can see it, every output dataset record of
\* the task is in the store too.
C28_WaitingTaskHasItsRecords ==
    \A t \in task :
        t.status = "waiting"
            => \A f \in t.output_formats \cup {"log"} :
                  \E d \in dataset : d.name = <<f, t.id>> /\ d.task_id = t.id

\* C29: when the candidate of an attempt is rejected (duplication, no more
\* input files, capacity or consistency error), the input_events of the step
\* and of the slice and the HashTag table are as they were before it.
C29_RejectionLeavesStoreUnchanged ==
    (/\ call.fn = "create_task_chain" /\ call.out # <<>>
     /\ call.out[1].raised # "none")
        => call.out[1].store = call.arg.store

\* C30: a candidate whose input the matching tasks have consumed to the last
\* file (used = total) is not accepted: every accepted candidate asks for at
\* least one file of its input.  Candidates in reuse-input mode, which
\* return before the capacity test by design (1337-1342), are left aside.
C30_FullyConsumedNeverAccepted ==
    \A x \in Runs :
        (run[x].pc = "regtask" /\ ~run[x].cand.reuse)
            => /\ run[x].cand.used < run[x].cand.total
               /\ run[x].cand.requested >= 1

====
